---------------------------- MODULE Spec2Model ----------------------------
(***************************************************************************)
(* Model of the EDINET DB financial-analysis web API (src/api/main.py).    *)
(* One request handler runs per behaviour; the upstream provider is the    *)
(* environment and answers every outbound request nondeterministically.    *)
(***************************************************************************)
EXTENDS Integers, Sequences, FiniteSets, TLC

VARIABLES
    handler,        \* the handler this behaviour runs
    pc,             \* its position
    args,           \* the request parameters it was called with
    reqLog,         \* the outbound requests issued so far, in order
    lastReply,      \* the provider's reply to the latest outbound request
    company_codes,  \* compare_companies: the parsed identifier list
    idx,            \* compare_companies: position of the loop in company_codes
    info,           \* compare_companies: the detail document of the current code
    results,        \* compare_companies: the success partition
    errors,         \* compare_companies: the failure partition
    fetchLog,       \* compare_companies: per position, how its fetches ended
    response        \* what the handler returned or raised

vars == <<handler, pc, args, reqLog, lastReply, company_codes, idx, info,
          results, errors, fetchLog, response>>

(***************************************************************************)
(* Decoded JSON / Python values.  Every value is a pair <<type, value>>,   *)
(* so that values of different Python types are comparable: x[1] is the    *)
(* type of x and x[2] what it holds.  Strings are sequences of characters  *)
(* (they can be sliced and stripped); dicts are functions from key names   *)
(* to values.  Python None is JSON null.                                   *)
(***************************************************************************)
None == <<"null", 0>>
Num(n) == <<"num", n>>
Str(s) == <<"str", s>>
List(s) == <<"list", s>>
Obj(f) == <<"obj", f>>
EmptyDict == [k \in {} |-> None]

Min(a, b) == IF a <= b THEN a ELSE b

\* Python truth value of a decoded value (operand of `or`, `if`, `not`).
Truthy(x) ==
    CASE x[1] = "null" -> FALSE
      [] x[1] = "num" -> x[2] # 0
      [] x[1] = "str" -> Len(x[2]) > 0
      [] x[1] = "list" -> Len(x[2]) > 0
      [] x[1] = "obj" -> DOMAIN x[2] # {}

\* a or b
PyOr(a, b) == IF Truthy(a) THEN a ELSE b

\* d.get(k) on a dict d (a function): None when the key is absent.
Get(d, k) == IF k \in DOMAIN d THEN d[k] ELSE None

\* d.get(k, default)
GetDefault(d, k, default) == IF k \in DOMAIN d THEN d[k] ELSE default

(***************************************************************************)
(* A call either returns a value or raises an exception.                   *)
(***************************************************************************)
Returned(x) == [exc |-> "none", status |-> 0, detail |-> "", val |-> x]
\* raise HTTPException(status_code=status, detail=detail)
HTTPException(status, detail) ==
    [exc |-> "HTTPException", status |-> status, detail |-> detail, val |-> None]
\* an exception that is not an HTTPException
OtherException(kind) == [exc |-> kind, status |-> 0, detail |-> kind, val |-> None]
IsOk(o) == o.exc = "none"
NoResponse == [exc |-> "pending", status |-> 0, detail |-> "", val |-> None]

-----------------------------------------------------------------------------
(***************************************************************************)
(* Bounds of the model.                                                    *)
(***************************************************************************)
\* longest payload list the provider sends
MaxSeries == 2
\* largest window size a caller asks for
MaxYears == 3

-----------------------------------------------------------------------------
(***************************************************************************)
(* The upstream provider and EDINETClient._request.                        *)
(* A reply is what one requests.get call meets: a transport failure, or an *)
(* HTTP status with a body.  The body of a 2xx reply is a JSON object, or  *)
(* text that is not JSON at all.                                           *)
(***************************************************************************)
NotJson == <<"notjson", 0>>
Reply(net, status, body) == [net |-> net, status |-> status, body |-> body]
ReplyOk(doc) == Reply("ok", 200, doc)
ReplyStatus(status) == Reply("ok", status, NotJson)
ReplyTimeout == Reply("timeout", 0, NotJson)
NoReply == Reply("none", 0, NotJson)

\* The outcomes of one _request call that meets reply r.  response.json()
\* on a body that is not JSON raises requests' JSONDecodeError, which is a
\* RequestException in requests >= 2.27 and a plain ValueError before: the
\* installed version decides, so both outcomes are possible.
RequestOutcomes(r) ==
    IF r.net # "ok" THEN {HTTPException(500, r.net)}
    ELSE IF r.status = 404 THEN {HTTPException(404, "not in EDINET")}
    ELSE IF r.status = 401 THEN {HTTPException(503, "authentication failed")}
    ELSE IF r.status = 403 THEN {HTTPException(503, "access denied")}
    ELSE IF r.status >= 400 THEN {HTTPException(500, "HTTPError")}
    ELSE IF r.body = NotJson
         THEN {HTTPException(500, "JSONDecodeError"), OtherException("ValueError")}
    ELSE {Returned(r.body)}

\* The failing replies a handler can meet on any request.
FailingReplies ==
    {ReplyStatus(404), ReplyStatus(401), ReplyStatus(403), ReplyStatus(500),
     ReplyTimeout, ReplyOk(NotJson)}

\* The requests the client methods issue (endpoint and query parameters).
DetailRequest(code) == [resource |-> "companies/{code}", code |-> code]
FinancialsRequest(code) == [resource |-> "companies/{code}/financials", code |-> code]

-----------------------------------------------------------------------------
(***************************************************************************)
(* EDINETClient.get_financials: envelope normalisation and windowing.      *)
(***************************************************************************)

\* raw_list[: int(years)] for a positive years: lists and strings are
\* sliced, anything else cannot be sliced and raises.
SliceFirst(x, n) ==
    IF x[1] \in {"list", "str"}
    THEN Returned(<<x[1], SubSeq(x[2], 1, Min(n, Len(x[2])))>>)
    ELSE OtherException("TypeError")

\* faulty variant: a window of zero periods counts as requested
WindowRequestedZero(years) == years[1] = "num" /\ years[2] >= 0
\* years is not None and years > 0
WindowRequested(years) == years[1] = "num" /\ years[2] > 0

\* faulty variant: the canonical key is read first
FinRawListCanonicalFirst(data) ==
    PyOr(PyOr(Get(data, "financials"), Get(data, "data")), List(<<>>))
\* The payload picked from the envelope: data.get("data") or
\* data.get("financials") or [].
FinRawList(data) == PyOr(PyOr(Get(data, "data"), Get(data, "financials")), List(<<>>))

\* faulty variant: the `data` key is never dropped
FinUnifyKeepData(data, raw_list) ==
    [k \in (DOMAIN data) \cup {"financials"} |->
        IF k = "financials" THEN raw_list ELSE data[k]]
\* The document returned for the payload raw_list (lines 99-103).
FinUnify(data, raw_list) ==
    IF "data" \in DOMAIN data /\ "financials" \notin DOMAIN data
    THEN [k \in ((DOMAIN data) \ {"data"}) \cup {"financials"} |->
            IF k = "financials" THEN raw_list ELSE data[k]]
    ELSE [k \in (DOMAIN data) \cup {"financials"} |->
            IF k = "financials" THEN raw_list ELSE data[k]]

\* The normalisation get_financials applies to the decoded document `data`.
NormalizeFinancials(data, years) ==
    LET raw == FinRawList(data)
        win == IF WindowRequested(years) THEN SliceFirst(raw, years[2]) ELSE Returned(raw)
    IN  IF IsOk(win) THEN Returned(Obj(FinUnify(data, win.val))) ELSE win

\* The outcome of client.get_financials when _request ended with outcome o.
GetFinancials(o, years) == IF IsOk(o) THEN NormalizeFinancials(o.val[2], years) ELSE o

(***************************************************************************)
(* The documents the provider may send for a financial time series.        *)
(***************************************************************************)
Absent == <<"absent", 0>>
Period(n) == Obj([fiscal_period |-> Num(n)])
Periods == {Period(1), Period(2)}
SeqsUpTo(S, n) == UNION {[1..m -> S] : m \in 0..n}
PayloadLists == {List(s) : s \in SeqsUpTo(Periods, MaxSeries)}
\* values under an envelope key that are not lists
NonLists ==
    {None, Str(<<>>), Str(<<"a", "b">>), Num(0), Num(5), Obj(EmptyDict),
     Obj([note |-> Num(1)])}
EnvelopeValues == PayloadLists \cup NonLists \cup {Absent}
Siblings ==
    {EmptyDict, [edinet_code |-> Str(<<"A">>)],
     [edinet_code |-> Str(<<"A">>), count |-> Num(2)]}
\* the JSON object with sibling fields sib and values a, b under keys ka, kb
Envelope(ka, a, kb, b, sib) ==
    LET keys == DOMAIN sib \cup (IF a = Absent THEN {} ELSE {ka})
                           \cup (IF b = Absent THEN {} ELSE {kb})
    IN  [k \in keys |-> IF k = ka THEN a ELSE IF k = kb THEN b ELSE sib[k]]
FinDocs ==
    {Obj(Envelope("data", a, "financials", b, sib)) :
        a \in EnvelopeValues, b \in EnvelopeValues, sib \in Siblings}
YearsValues == {None} \cup {Num(n) : n \in -1..MaxYears}
Codes == {<<"A">>, <<"B">>}

-----------------------------------------------------------------------------
(***************************************************************************)
(* GET /companies/{company_code}/financials                                *)
(***************************************************************************)
InitFin ==
    /\ handler = "get_financials"
    /\ pc = "start"
    /\ args \in [company_code : Codes, years : YearsValues]
    /\ reqLog = <<>>
    /\ lastReply = NoReply
    /\ company_codes = <<>>
    /\ idx = 0
    /\ info = None
    /\ results = <<>>
    /\ errors = <<>>
    /\ fetchLog = <<>>
    /\ response = NoResponse

\* The handler: one upstream request, then normalisation; an exception of
\* the client propagates.
FinancialsHandler ==
    /\ handler = "get_financials"
    /\ pc = "start"
    /\ \E r \in {ReplyOk(d) : d \in FinDocs} \cup FailingReplies :
         \E o \in RequestOutcomes(r) :
            /\ lastReply' = r
            /\ reqLog' = Append(reqLog, FinancialsRequest(args.company_code))
            /\ response' = GetFinancials(o, args.years)
    /\ pc' = "done"
    /\ UNCHANGED <<handler, args, company_codes, idx, info, results, errors, fetchLog>>

NextFin == FinancialsHandler

SpecFin == InitFin /\ [][NextFin]_vars

(***************************************************************************)
(* Properties of get_financials.                                           *)
(***************************************************************************)
\* the handler is done and the provider had answered with a JSON object
FinAnswered ==
    /\ handler = "get_financials"
    /\ pc = "done"
    /\ lastReply.net = "ok" /\ lastReply.status = 200 /\ lastReply.body # NotJson
\* the JSON object the provider sent, and the one the handler returned
UpstreamDoc == lastReply.body[2]
ResponseDoc == response.val[2]
NoWindow(years) == years = None \/ (years[1] = "num" /\ years[2] <= 0)
\* the first min(Len(s), n) elements of s, in order
FirstN(s, n) == [i \in 1..Min(n, Len(s)) |-> s[i]]
ExpectedWindow(s, years) == IF NoWindow(years) THEN s ELSE FirstN(s, years[2])
\* the document carries a list under exactly one envelope key, `key`
SeriesUnder(doc, key) ==
    /\ key \in DOMAIN doc
    /\ doc[key][1] = "list"
    /\ \A other \in {"data", "financials"} \ {key} : other \notin DOMAIN doc

\* C4: for every upstream series (a list under one envelope key) and every
\* window size, get_financials does not fail; `financials` is the first
\* min(len, N) elements in order when N is positive and the series unchanged
\* when N is absent, zero or negative; windowing the result again with the
\* same N changes nothing.
C4_Windowing ==
    FinAnswered =>
        \A key \in {"data", "financials"} :
            SeriesUnder(UpstreamDoc, key) =>
                /\ IsOk(response)
                /\ ResponseDoc["financials"] =
                        List(ExpectedWindow(UpstreamDoc[key][2], args.years))
                /\ LET again == NormalizeFinancials(ResponseDoc, args.years)
                   IN  /\ IsOk(again)
                       /\ again.val[2]["financials"] = ResponseDoc["financials"]

\* a series of two periods was cut to its first period
C4_Witness ==
    /\ FinAnswered
    /\ SeriesUnder(UpstreamDoc, "financials")
    /\ UpstreamDoc["financials"] = List(<<Period(2), Period(1)>>)
    /\ args.years = Num(1)
    /\ IsOk(response)
    /\ ResponseDoc["financials"] = List(<<Period(2)>>)

\* C9: a document with its list under `data` and no `financials` key comes
\* back with the (windowed) list under `financials`, without `data`, with
\* every other top-level key unchanged and no key added.
C9_DataRewritten ==
    FinAnswered /\ SeriesUnder(UpstreamDoc, "data") =>
        /\ IsOk(response)
        /\ ResponseDoc["financials"] =
                List(ExpectedWindow(UpstreamDoc["data"][2], args.years))
        /\ DOMAIN ResponseDoc = ((DOMAIN UpstreamDoc) \ {"data"}) \cup {"financials"}
        /\ \A k \in (DOMAIN UpstreamDoc) \ {"data"} : ResponseDoc[k] = UpstreamDoc[k]

\* a document with two sibling fields and a two-period list under `data`
C9_Witness ==
    /\ FinAnswered
    /\ SeriesUnder(UpstreamDoc, "data")
    /\ UpstreamDoc["data"] = List(<<Period(2), Period(1)>>)
    /\ DOMAIN UpstreamDoc = {"data", "edinet_code", "count"}
    /\ IsOk(response)
    /\ DOMAIN ResponseDoc = {"financials", "edinet_code", "count"}

\* the document holds a list under the canonical key and no window is asked
CanonicalPresent ==
    /\ FinAnswered
    /\ "financials" \in DOMAIN UpstreamDoc
    /\ UpstreamDoc["financials"][1] = "list"
    /\ NoWindow(args.years)
\* the keys are the upstream keys and every value but `financials` is kept
KeysKept ==
    /\ IsOk(response)
    /\ DOMAIN ResponseDoc = DOMAIN UpstreamDoc
    /\ \A k \in (DOMAIN UpstreamDoc) \ {"financials"} : ResponseDoc[k] = UpstreamDoc[k]

\* C10 as stated: with `financials` holding a list, whether or not `data`
\* is present too, and no window, the returned `financials` is the upstream
\* `financials` list and the keys and values are the upstream ones.
C10_AsStated ==
    CanonicalPresent =>
        KeysKept /\ ResponseDoc["financials"] = UpstreamDoc["financials"]

\* `data` is present and holds a value Python treats as true
DataTakesOver(doc) ==
    /\ "data" \in DOMAIN doc
    /\ doc["data"] \notin {None, Num(0), Str(<<>>), List(<<>>), Obj(EmptyDict)}

\* C10 amended: with `financials` holding a list and no window, the keys
\* are the upstream keys and every value but `financials` is unchanged;
\* `financials` is the upstream `financials` list when `data` is absent or
\* holds an empty or null value, and the upstream `data` value otherwise.
C10_CanonicalKept ==
    CanonicalPresent =>
        /\ KeysKept
        /\ ResponseDoc["financials"] =
              IF DataTakesOver(UpstreamDoc) THEN UpstreamDoc["data"]
              ELSE UpstreamDoc["financials"]

\* both keys present, `data` null: the canonical list came back as it was
C10_Witness ==
    /\ CanonicalPresent
    /\ "data" \in DOMAIN UpstreamDoc
    /\ UpstreamDoc["data"] = None
    /\ UpstreamDoc["financials"] = List(<<Period(2), Period(1)>>)
    /\ IsOk(response)
    /\ ResponseDoc["financials"] = UpstreamDoc["financials"]


-----------------------------------------------------------------------------
(***************************************************************************)
(* Rating classifier: rate_profitability, rate_efficiency, rate_stability. *)
(* A ratio is None or a number of percent; the model counts it in units of *)
(* 1/RatioScale percent, so a threshold of 15 is 15 * RatioScale units.    *)
(***************************************************************************)
\* units per percent
RatioScale == 2
\* largest ratio the provider reports, in percent (the smallest is -2)
MaxRatio == 52

RoeExcellent == 15
RoeGood == 10
RoeAverage == 5
RoaExcellent == 10
RoaGood == 5
RoaAverage == 2
EquityExcellent == 50
EquityGood == 30
EquityAverage == 20

\* the labels, in the source: "N/A", "優秀", "良好", "普通", "要改善"
Unrated == "N/A"
Excellent == "yuushuu"
Good == "ryoukou"
Average == "futsuu"
NeedsImprovement == "youkaizen"

\* x >= bound, for a ratio x in units and a bound in percent
AtLeast(x, bound) == x[2] >= bound * RatioScale

\* faulty variant: the bounds are exclusive
RateProfitabilityStrict(roe) ==
    IF roe = None THEN Unrated
    ELSE IF roe[2] > RoeExcellent * RatioScale THEN Excellent
    ELSE IF roe[2] > RoeGood * RatioScale THEN Good
    ELSE IF roe[2] > RoeAverage * RatioScale THEN Average
    ELSE NeedsImprovement
rate_profitability(roe) ==
    IF roe = None THEN Unrated
    ELSE IF AtLeast(roe, RoeExcellent) THEN Excellent
    ELSE IF AtLeast(roe, RoeGood) THEN Good
    ELSE IF AtLeast(roe, RoeAverage) THEN Average
    ELSE NeedsImprovement

rate_efficiency(roa) ==
    IF roa = None THEN Unrated
    ELSE IF AtLeast(roa, RoaExcellent) THEN Excellent
    ELSE IF AtLeast(roa, RoaGood) THEN Good
    ELSE IF AtLeast(roa, RoaAverage) THEN Average
    ELSE NeedsImprovement

rate_stability(equity_ratio) ==
    IF equity_ratio = None THEN Unrated
    ELSE IF AtLeast(equity_ratio, EquityExcellent) THEN Excellent
    ELSE IF AtLeast(equity_ratio, EquityGood) THEN Good
    ELSE IF AtLeast(equity_ratio, EquityAverage) THEN Average
    ELSE NeedsImprovement

RatioValues == {None} \cup {Num(n) : n \in (-2 * RatioScale)..(MaxRatio * RatioScale)}
RatioNames == {"roe", "roa", "equity_ratio"}

InitRate ==
    /\ handler = "ratings"
    /\ pc = "start"
    /\ args \in [ratio : RatioNames, value : RatioValues]
    /\ reqLog = <<>>
    /\ lastReply = NoReply
    /\ company_codes = <<>>
    /\ idx = 0
    /\ info = None
    /\ results = <<>>
    /\ errors = <<>>
    /\ fetchLog = <<>>
    /\ response = NoResponse

RateProfitability ==
    /\ handler = "ratings" /\ pc = "start" /\ args.ratio = "roe"
    /\ response' = Returned(rate_profitability(args.value))
    /\ pc' = "done"
    /\ UNCHANGED <<handler, args, reqLog, lastReply, company_codes, idx, info,
                   results, errors, fetchLog>>

RateEfficiency ==
    /\ handler = "ratings" /\ pc = "start" /\ args.ratio = "roa"
    /\ response' = Returned(rate_efficiency(args.value))
    /\ pc' = "done"
    /\ UNCHANGED <<handler, args, reqLog, lastReply, company_codes, idx, info,
                   results, errors, fetchLog>>

RateStability ==
    /\ handler = "ratings" /\ pc = "start" /\ args.ratio = "equity_ratio"
    /\ response' = Returned(rate_stability(args.value))
    /\ pc' = "done"
    /\ UNCHANGED <<handler, args, reqLog, lastReply, company_codes, idx, info,
                   results, errors, fetchLog>>

NextRate == RateProfitability \/ RateEfficiency \/ RateStability

SpecRate == InitRate /\ [][NextRate]_vars

(***************************************************************************)
(* Properties of the rating classifier.                                    *)
(***************************************************************************)
\* the claim's thresholds per ratio, in percent, highest tier first
ClaimedBounds(ratio) ==
    CASE ratio = "roe" -> {15, 10, 5}
      [] ratio = "roa" -> {10, 5, 2}
      [] ratio = "equity_ratio" -> {50, 30, 20}
\* tier 4 (Excellent) down to tier 1 (Needs Improvement); 0 is Unrated
TierOf(label) ==
    CASE label = Excellent -> 4
      [] label = Good -> 3
      [] label = Average -> 2
      [] label = NeedsImprovement -> 1
      [] label = Unrated -> 0
\* the classifier of a ratio, by name
Classify(ratio, x) ==
    CASE ratio = "roe" -> rate_profitability(x)
      [] ratio = "roa" -> rate_efficiency(x)
      [] ratio = "equity_ratio" -> rate_stability(x)
\* one tier per inclusive lower bound reached, plus the lowest tier
ClaimedTier(ratio, x) ==
    1 + Cardinality({b \in ClaimedBounds(ratio) : x[2] >= b * RatioScale})

\* C5: None is Unrated; a present value gets the tier of the first
\* inclusive lower bound it reaches (a value on a bound gets the higher
\* tier, one below the lowest bound the lowest tier); raising a ratio never
\* lowers its tier.
C5_Rating ==
    (handler = "ratings" /\ pc = "done") =>
        /\ IsOk(response)
        /\ (args.value = None => response.val = Unrated)
        /\ (args.value # None =>
              /\ TierOf(response.val) = ClaimedTier(args.ratio, args.value)
              /\ \A w \in RatioValues \ {None} :
                    w[2] >= args.value[2] =>
                        TierOf(Classify(args.ratio, w)) >= TierOf(response.val))

\* ROE exactly 15 percent was rated Excellent
C5_Witness ==
    /\ handler = "ratings" /\ pc = "done"
    /\ args.ratio = "roe"
    /\ args.value = Num(15 * RatioScale)
    /\ response.val = Excellent

-----------------------------------------------------------------------------
(***************************************************************************)
(* GET /rankings/{metric}                                                  *)
(***************************************************************************)
valid_metrics == {"roe", "roa", "sales", "market_cap", "operating_income"}
\* metric values a caller may put in the path
Metrics == valid_metrics \cup {"invalid_metric", "ROE", "per"}
\* limit is validated to 1..100 and order to asc|desc by the transport layer
Limits == {1, 10, 100}
Orders == {"asc", "desc"}

\* EDINETClient.get_ranking: the request it issues
RankingRequest(metric, limit, order) ==
    [resource |-> "rankings/{metric}", metric |-> metric, limit |-> limit,
     order |-> order]

RankingEntry(name, value) == Obj([name |-> Str(<<name>>), value |-> Num(value)])
RankingDocs ==
    {Obj([ranking |-> List(<<>>)]),
     Obj([ranking |-> List(<<RankingEntry("A", 30), RankingEntry("B", 20)>>)])}

InitRank ==
    /\ handler = "get_ranking"
    /\ pc = "start"
    /\ args \in [metric : Metrics, limit : Limits, order : Orders]
    /\ reqLog = <<>>
    /\ lastReply = NoReply
    /\ company_codes = <<>>
    /\ idx = 0
    /\ info = None
    /\ results = <<>>
    /\ errors = <<>>
    /\ fetchLog = <<>>
    /\ response = NoResponse

\* faulty variant: the metric is not validated
MetricAcceptedAlways(metric) == TRUE
\* metric in valid_metrics
MetricAccepted(metric) == metric \in valid_metrics

\* The handler: the metric is validated, then the client issues its request
\* and the document or the exception of the client is the handler's.
GetRanking ==
    /\ handler = "get_ranking"
    /\ pc = "start"
    /\ \/ /\ ~MetricAccepted(args.metric)
          /\ response' = HTTPException(400, "Invalid metric")
          /\ UNCHANGED <<reqLog, lastReply>>
       \/ /\ MetricAccepted(args.metric)
          /\ \E r \in {ReplyOk(d) : d \in RankingDocs} \cup FailingReplies :
               \E o \in RequestOutcomes(r) :
                  /\ lastReply' = r
                  /\ reqLog' = Append(reqLog,
                                  RankingRequest(args.metric, args.limit, args.order))
                  /\ response' = o
    /\ pc' = "done"
    /\ UNCHANGED <<handler, args, company_codes, idx, info, results, errors, fetchLog>>

NextRank == GetRanking

SpecRank == InitRank /\ [][NextRank]_vars

(***************************************************************************)
(* Properties of the ranking handler.                                      *)
(***************************************************************************)
\* C6: a metric outside roe, roa, sales, market_cap, operating_income fails
\* with HTTP 400 and no upstream request; a metric in that set issues
\* exactly one upstream request, for that metric.
C6_RankingValidation ==
    (handler = "get_ranking" /\ pc = "done") =>
        IF args.metric \in {"roe", "roa", "sales", "market_cap", "operating_income"}
        THEN /\ Len(reqLog) = 1
             /\ reqLog[1].resource = "rankings/{metric}"
             /\ reqLog[1].metric = args.metric
        ELSE /\ reqLog = <<>>
             /\ response.exc = "HTTPException"
             /\ response.status = 400

\* the metric invalid_metric was refused before any request
C6_Witness ==
    /\ handler = "get_ranking" /\ pc = "done"
    /\ args.metric = "invalid_metric"
    /\ response.status = 400
    /\ reqLog = <<>>

-----------------------------------------------------------------------------
(***************************************************************************)
(* GET /companies: EDINETClient.search_companies.                          *)
(***************************************************************************)
\* most items in a search payload
MaxItems == 2
\* largest per_page a caller asks for (the transport layer allows 1..100)
MaxPerPage == 2

SearchRequest(q) == [resource |-> "search", q |-> q]
ListingRequest(per_page, page) ==
    [resource |-> "companies", per_page |-> per_page, page |-> page]

\* faulty variant: only the `data` envelope key is known
SearchRawListDataOnly(data) == PyOr(Get(data, "data"), List(<<>>))
\* raw_list = data.get("data") or data.get("companies") or []
SearchRawList(data) == PyOr(PyOr(Get(data, "data"), Get(data, "companies")), List(<<>>))

\* The summary built from one result item c (lines 77-82).
NormalizeItem(c) ==
    Obj([edinet_code |-> PyOr(Get(c, "edinet_code"), GetDefault(c, "code", Str(<<>>))),
         name |-> GetDefault(c, "name", Str(<<>>)),
         securities_code |->
             PyOr(PyOr(Get(c, "securities_code"), Get(c, "sec_code")), Str(<<>>)),
         industry |-> PyOr(PyOr(Get(c, "industry"), Get(c, "sector")), Str(<<>>))])

\* companies[:per_page]
Truncate(companies, per_page) == SubSeq(companies, 1, Min(per_page, Len(companies)))

\* The search branch applied to the decoded document `data`: the loop calls
\* c.get on every element, which only a dict has; a payload that is not a
\* list is iterated all the same (a string by character, a dict by key) or
\* cannot be iterated at all (a number).
NormalizeSearch(data, per_page) ==
    LET raw_list == SearchRawList(data)
    IN  IF raw_list[1] = "num" THEN OtherException("TypeError")
        ELSE IF raw_list[1] # "list" THEN OtherException("AttributeError")
        ELSE IF \E i \in 1..Len(raw_list[2]) : raw_list[2][i][1] # "obj"
             THEN OtherException("AttributeError")
        ELSE Returned(Obj([companies |->
                List(Truncate([i \in 1..Len(raw_list[2]) |-> NormalizeItem(raw_list[2][i][2])],
                              per_page))]))

\* The outcome of client.search_companies with a query, after _request
\* ended with outcome o.
SearchCompanies(o, per_page) == IF IsOk(o) THEN NormalizeSearch(o.val[2], per_page) ELSE o

(***************************************************************************)
(* The result items and documents the provider may send for a search.      *)
(***************************************************************************)
\* the value the provider holds under key k of an item
KeyValue(k) == Str(<<k>>)
FirstKeyValues(k) == {Absent, None, Str(<<>>), KeyValue(k)}
SecondKeyValues(k) == {Absent, None, KeyValue(k)}
ItemOf(e, c, n, s1, s2, i1, i2) ==
    LET given == [edinet_code |-> e, code |-> c, name |-> n, securities_code |-> s1,
                  sec_code |-> s2, industry |-> i1, sector |-> i2]
    IN  Obj([k \in {x \in DOMAIN given : given[x] # Absent} |-> given[k]])
Items ==
    {ItemOf(e, c, n, s1, s2, i1, i2) :
        e \in FirstKeyValues("edinet_code"), c \in SecondKeyValues("code"),
        n \in FirstKeyValues("name"),
        s1 \in FirstKeyValues("securities_code"), s2 \in SecondKeyValues("sec_code"),
        i1 \in FirstKeyValues("industry"), i2 \in SecondKeyValues("sector")}
\* a full item, an item that uses the synonym keys only, an empty item
FewItems ==
    {ItemOf(KeyValue("edinet_code"), Absent, KeyValue("name"),
            KeyValue("securities_code"), Absent, KeyValue("industry"), Absent),
     ItemOf(Absent, KeyValue("code"), KeyValue("name"), Absent, KeyValue("sec_code"),
            Absent, KeyValue("sector")),
     Obj(EmptyDict)}
SearchLists ==
    {List(<<c>>) : c \in Items \cup {None, Str(<<"x">>)}}
        \cup {List(s) : s \in SeqsUpTo(FewItems, MaxItems)}
SearchDocs ==
    {Obj(Envelope("data", a, "companies", Absent, EmptyDict)) : a \in SearchLists}
      \cup {Obj(Envelope("data", Absent, "companies", b, EmptyDict)) : b \in SearchLists}
      \cup {Obj(Envelope("data", a, "companies", b, sib)) :
              a \in NonLists \cup {Absent, List(<<>>), List(<<Obj(EmptyDict)>>)},
              b \in NonLists \cup {Absent, List(<<>>), List(<<Obj(EmptyDict)>>)},
              sib \in {EmptyDict, [total |-> Num(1)]}}
ListingDocs == {Obj([companies |-> List(s)]) : s \in SeqsUpTo(FewItems, 1)}
Queries == {None, Str(<<>>), Str(<<"t">>)}

InitSearch ==
    /\ handler = "search_companies"
    /\ pc = "start"
    /\ args \in [query : Queries, per_page : 1..MaxPerPage, page : 1..2]
    /\ reqLog = <<>>
    /\ lastReply = NoReply
    /\ company_codes = <<>>
    /\ idx = 0
    /\ info = None
    /\ results = <<>>
    /\ errors = <<>>
    /\ fetchLog = <<>>
    /\ response = NoResponse

\* The handler: with a query, one request to /search and normalisation;
\* without one, one request to /companies passed through as it is.
SearchHandler ==
    /\ handler = "search_companies"
    /\ pc = "start"
    /\ \/ /\ Truthy(args.query)
          /\ \E r \in {ReplyOk(d) : d \in SearchDocs} \cup FailingReplies :
               \E o \in RequestOutcomes(r) :
                  /\ lastReply' = r
                  /\ reqLog' = Append(reqLog, SearchRequest(args.query))
                  /\ response' = SearchCompanies(o, args.per_page)
       \/ /\ ~Truthy(args.query)
          /\ \E r \in {ReplyOk(d) : d \in ListingDocs} \cup FailingReplies :
               \E o \in RequestOutcomes(r) :
                  /\ lastReply' = r
                  /\ reqLog' = Append(reqLog, ListingRequest(args.per_page, args.page))
                  /\ response' = o
    /\ pc' = "done"
    /\ UNCHANGED <<handler, args, company_codes, idx, info, results, errors, fetchLog>>

NextSearch == SearchHandler

SpecSearch == InitSearch /\ [][NextSearch]_vars

(***************************************************************************)
(* Properties of search normalisation.                                     *)
(***************************************************************************)
\* a search with a query is done and the provider had answered with JSON
SearchAnswered ==
    /\ handler = "search_companies"
    /\ pc = "done"
    /\ Truthy(args.query)
    /\ lastReply.net = "ok" /\ lastReply.status = 200 /\ lastReply.body # NotJson
\* the summaries the search returned
Summaries == ResponseDoc["companies"][2]
OtherEnvelopeKey(key) == IF key = "data" THEN "companies" ELSE "data"
\* the document carries a list of result items under `key` alone
ItemsUnder(doc, key) ==
    /\ key \in DOMAIN doc
    /\ OtherEnvelopeKey(key) \notin DOMAIN doc
    /\ doc[key][1] = "list"
    /\ \A i \in 1..Len(doc[key][2]) : doc[key][2][i][1] = "obj"
\* the same document with its list under the other envelope key
Moved(doc, key) ==
    [k \in ((DOMAIN doc) \ {key}) \cup {OtherEnvelopeKey(key)} |->
        IF k = OtherEnvelopeKey(key) THEN doc[key] ELSE doc[k]]

\* C7: a response with the item list under `data` and a response with the
\* same list under `companies` normalise to the same sequence of summaries:
\* same items, same order, same field values, truncated to per_page.
C7_EnvelopeKeysAgree ==
    SearchAnswered =>
        \A key \in {"data", "companies"} :
            ItemsUnder(UpstreamDoc, key) =>
                /\ IsOk(response)
                /\ response = NormalizeSearch(Moved(UpstreamDoc, key), args.per_page)
                /\ Len(Summaries) =
                        Min(Len(UpstreamDoc[key][2]), args.per_page)

\* two different items under `companies`, per_page 1: the first one came back
C7_Witness ==
    /\ SearchAnswered
    /\ ItemsUnder(UpstreamDoc, "companies")
    /\ Len(UpstreamDoc["companies"][2]) = 2
    /\ UpstreamDoc["companies"][2][1] # UpstreamDoc["companies"][2][2]
    /\ args.per_page = 1
    /\ IsOk(response)
    /\ Summaries = <<NormalizeItem(UpstreamDoc["companies"][2][1][2])>>
    /\ Summaries[1][2]["edinet_code"] # Str(<<>>)

\* the known source keys of each summary field, in order of preference
SourceKeys(field) ==
    CASE field = "edinet_code" -> <<"edinet_code", "code">>
      [] field = "name" -> <<"name">>
      [] field = "securities_code" -> <<"securities_code", "sec_code">>
      [] field = "industry" -> <<"industry", "sector">>
SummaryFields == {"edinet_code", "name", "securities_code", "industry"}
\* key k of item c holds a value: it is present and neither null nor empty
HoldsValue(c, k) == k \in DOMAIN c /\ c[k] \notin {None, Str(<<>>)}
\* the first source key of the field that holds a value, else the empty string
ClaimedField(c, field) ==
    LET ks == SourceKeys(field)
        holding == {i \in 1..Len(ks) : HoldsValue(c, ks[i])}
    IN  IF holding = {} THEN Str(<<>>)
        ELSE c[ks[CHOOSE i \in holding : \A j \in holding : i <= j]]

\* C8 as stated: every summary field is the first of its source keys that
\* holds a non-empty value, and the empty string (never None, never an
\* error) when its keys are absent or hold null or the empty string.
C8_FieldsNeverNone ==
    SearchAnswered =>
        \A key \in {"data", "companies"} :
            ItemsUnder(UpstreamDoc, key) =>
                /\ IsOk(response)
                /\ \A i \in 1..Len(Summaries) :
                     \A field \in SummaryFields :
                        Summaries[i][2][field] =
                            ClaimedField(UpstreamDoc[key][2][i][2], field)

\* neither envelope key of the document holds a list: each is absent or
\* holds null, an object, a string or a number
Malformed(doc, ka, kb) ==
    \A k \in {ka, kb} : k \in DOMAIN doc => doc[k][1] # "list"

\* C11 as stated: a search with a query and a time-series fetch, with or
\* without a window, whose upstream document is malformed, raise no error
\* and return the empty sequence, as for an upstream answer of zero results.
C11_MalformedNeverFails ==
    /\ (FinAnswered /\ Malformed(UpstreamDoc, "data", "financials")) =>
            (IsOk(response) /\ ResponseDoc["financials"] = List(<<>>))
    /\ (SearchAnswered /\ Malformed(UpstreamDoc, "data", "companies")) =>
            (IsOk(response) /\ Summaries = <<>>)

-----------------------------------------------------------------------------
(***************************************************************************)
(* GET /compare: compare_companies.                                        *)
(***************************************************************************)
\* most identifiers a caller puts in `codes`
MaxCodes == 11
\* most fetches the provider fails during one comparison
MaxFailures == 1

\* len(company_codes) < 2 and len(company_codes) > 10
MinCompanies == 2
MaxCompanies == 10

\* codes.split(","): the pieces between the commas, at least one
RECURSIVE Split(_)
Split(s) ==
    IF \A i \in 1..Len(s) : s[i] # ","
    THEN <<s>>
    ELSE LET i == CHOOSE j \in 1..Len(s) :
                    s[j] = "," /\ \A k \in 1..(j - 1) : s[k] # ","
         IN  <<SubSeq(s, 1, i - 1)>> \o Split(SubSeq(s, i + 1, Len(s)))

\* code.strip(): without its leading and trailing blanks
Strip(s) ==
    LET solid == {i \in 1..Len(s) : s[i] # " "}
    IN  IF solid = {} THEN <<>>
        ELSE SubSeq(s, CHOOSE i \in solid : \A j \in solid : i <= j,
                       CHOOSE i \in solid : \A j \in solid : j <= i)

\* company_codes = [code.strip() for code in codes.split(",")]
ParseCodes(codes) == LET parts == Split(codes) IN [i \in 1..Len(parts) |-> Strip(parts[i])]

\* faulty variant: the upper limit is off by one
CountAcceptedUpTo11(n) == n >= MinCompanies /\ n <= MaxCompanies + 1
\* neither len(company_codes) < 2 nor len(company_codes) > 10
CountAccepted(n) == ~(n < MinCompanies) /\ ~(n > MaxCompanies)

\* str(e): the text of an exception, fixed by its kind and its detail
StrOfException(e) == Str(<<e.exc, e.detail>>)

\* The entry appended to results (lines 290-295).
SuccessEntry(code, infoDoc, financials) ==
    Obj([code |-> Str(code), name |-> Get(infoDoc[2], "name"), info |-> infoDoc,
         financials |-> financials])
\* The entry appended to errors (lines 297-300).
ErrorEntry(code, e) == Obj([code |-> Str(code), error |-> StrOfException(e)])

\* faulty variant: entries are put in front
PrependTo(partition, entry) == <<entry>> \o partition
\* results.append(entry), errors.append(entry)
AppendTo(partition, entry) == Append(partition, entry)

\* faulty variant: except HTTPException
CaughtOnlyHTTPException(o) == o.exc = "HTTPException"
\* except Exception: every exception a fetch raises is caught
Caught(o) == ~IsOk(o)

(***************************************************************************)
(* The query strings and the provider's documents for a comparison.        *)
(***************************************************************************)
\* the pieces a caller writes between the commas
Tokens == << <<"A">>, <<" ", "B", " ">> >>
RECURSIVE Join(_)
Join(pieces) ==
    IF Len(pieces) = 1 THEN pieces[1]
    ELSE pieces[1] \o <<",">> \o Join(Tail(pieces))
\* n pieces that repeat the first k of Tokens
CodesString(n, k) == Join([i \in 1..n |-> Tokens[((i - 1) % k) + 1]])
\* the empty string, "A", "A,A", "A, B ", "A, B ,A", ...
CodesStrings == {<<>>} \cup {CodesString(n, k) : n \in 1..MaxCodes, k \in 1..Len(Tokens)}
DetailDoc(code) == Obj([edinet_code |-> Str(code), name |-> Str(<<"name of">> \o code)])
SeriesDoc(code) ==
    Obj([data |-> List(<<Period(2), Period(1)>>), edinet_code |-> Str(code)])
\* the ways the provider fails a fetch of a comparison: not found, credential
\* rejected, timeout, a body that is not JSON
CompareFailingReplies == {ReplyStatus(404), ReplyStatus(401), ReplyTimeout, ReplyOk(NotJson)}

InitCompare ==
    /\ handler = "compare_companies"
    /\ pc = "start"
    /\ args \in [codes : CodesStrings, years : {None, Num(1)}]
    /\ reqLog = <<>>
    /\ lastReply = NoReply
    /\ company_codes = <<>>
    /\ idx = 0
    /\ info = None
    /\ results = <<>>
    /\ errors = <<>>
    /\ fetchLog = <<>>
    /\ response = NoResponse

\* Lines 269-284: the identifiers are parsed and counted.
CompareValidate ==
    /\ handler = "compare_companies"
    /\ pc = "start"
    /\ company_codes' = ParseCodes(args.codes)
    /\ IF CountAccepted(Len(company_codes'))
       THEN /\ pc' = "info"
            /\ idx' = 1
            /\ UNCHANGED response
       ELSE /\ pc' = "done"
            /\ response' = HTTPException(400, "company codes out of range")
            /\ UNCHANGED idx
    /\ UNCHANGED <<handler, args, reqLog, lastReply, info, results, errors, fetchLog>>

\* the provider may fail this fetch: at most MaxFailures fetches of a
\* comparison fail, and any fetch of a comparison of the fewest identifiers
MayFail == Len(errors) < MaxFailures \/ Len(company_codes) <= MinCompanies

\* faulty variant: the request is recorded ahead of the earlier ones
IssuedInFront(log, request) == <<request>> \o log
\* requests.get inside _request: the request goes out after every earlier one
Issued(log, request) == Append(log, request)

\* Line 288: the detail fetch of the current code.  An exception ends the
\* iteration with an entry in errors; one that `except Exception` does not
\* catch would end the handler.
CompareFetchInfo ==
    /\ handler = "compare_companies"
    /\ pc = "info"
    /\ idx <= Len(company_codes)
    /\ LET code == company_codes[idx] IN
       \E r \in {ReplyOk(DetailDoc(code))} \cup {f \in CompareFailingReplies : MayFail} :
         \E o \in RequestOutcomes(r) :
            /\ lastReply' = r
            /\ reqLog' = Issued(reqLog, DetailRequest(code))
            /\ IF IsOk(o)
               THEN /\ info' = o.val
                    /\ pc' = "financials"
                    /\ UNCHANGED <<errors, idx, fetchLog, response>>
               ELSE /\ fetchLog' = Append(fetchLog, [info |-> "raised", financials |-> "skipped"])
                    /\ UNCHANGED info
                    /\ IF Caught(o)
                       THEN /\ errors' = AppendTo(errors, ErrorEntry(code, o))
                            /\ idx' = idx + 1
                            /\ UNCHANGED <<pc, response>>
                       ELSE /\ response' = o
                            /\ pc' = "done"
                            /\ UNCHANGED <<errors, idx>>
    /\ UNCHANGED <<handler, args, company_codes, results>>

\* Lines 289-300: the time-series fetch of the current code and the append
\* to results, or to errors when get_financials raised.
CompareFetchFinancials ==
    /\ handler = "compare_companies"
    /\ pc = "financials"
    /\ LET code == company_codes[idx] IN
       \E r \in {ReplyOk(SeriesDoc(code))} \cup {f \in CompareFailingReplies : MayFail} :
         \E o \in RequestOutcomes(r) :
            LET financials == GetFinancials(o, args.years) IN
            /\ lastReply' = r
            /\ reqLog' = Issued(reqLog, FinancialsRequest(code))
            /\ IF IsOk(financials)
               THEN /\ results' = AppendTo(results, SuccessEntry(code, info, financials.val))
                    /\ fetchLog' = Append(fetchLog, [info |-> "returned", financials |-> "returned"])
                    /\ idx' = idx + 1
                    /\ pc' = "info"
                    /\ UNCHANGED <<errors, response>>
               ELSE /\ fetchLog' = Append(fetchLog, [info |-> "returned", financials |-> "raised"])
                    /\ UNCHANGED results
                    /\ IF Caught(financials)
                       THEN /\ errors' = AppendTo(errors, ErrorEntry(code, financials))
                            /\ idx' = idx + 1
                            /\ pc' = "info"
                            /\ UNCHANGED response
                       ELSE /\ response' = financials
                            /\ pc' = "done"
                            /\ UNCHANGED <<errors, idx>>
    /\ info' = None   \* not read again before line 288 assigns it anew
    /\ UNCHANGED <<handler, args, company_codes>>

\* Lines 302-305: the loop is over and the two partitions are returned.
CompareReturn ==
    /\ handler = "compare_companies"
    /\ pc = "info"
    /\ idx > Len(company_codes)
    /\ response' = Returned(Obj([success |-> List(results), errors |-> List(errors)]))
    /\ pc' = "done"
    /\ UNCHANGED <<handler, args, reqLog, lastReply, company_codes, idx, info,
                   results, errors, fetchLog>>

NextCompare ==
    \/ CompareValidate
    \/ CompareFetchInfo
    \/ CompareFetchFinancials
    \/ CompareReturn

SpecCompare == InitCompare /\ [][NextCompare]_vars

(***************************************************************************)
(* Properties of compare_companies.                                        *)
(***************************************************************************)
\* the number of identifiers in the query string: one more than its commas
IdentifierCount == Cardinality({i \in 1..Len(args.codes) : args.codes[i] = ","}) + 1
InRange(n) == n >= 2 /\ n <= 10
\* the comparison is over for a list of 2 to 10 identifiers
Compared ==
    /\ handler = "compare_companies"
    /\ pc = "done"
    /\ InRange(IdentifierCount)
\* the identifiers of the entries of a partition, in order
CodesOf(partition) == [i \in 1..Len(partition) |-> partition[i][2]["code"][2]]
\* the partitions of the returned document
Success == ResponseDoc["success"][2]
Errors == ResponseDoc["errors"][2]
\* the input positions one of whose two fetches raised, and the others
RaisedAt == {i \in 1..Len(fetchLog) :
                fetchLog[i].info = "raised" \/ fetchLog[i].financials = "raised"}
\* the identifiers at the positions of set P, in input order
RECURSIVE PickFrom(_, _, _)
PickFrom(codes, P, i) ==
    IF i > Len(codes) THEN <<>>
    ELSE (IF i \in P THEN <<codes[i]>> ELSE <<>>) \o PickFrom(codes, P, i + 1)

\* C1: with 2 to 10 identifiers, whatever the provider answers to each
\* fetch, the call returns normally, every input position ends in exactly
\* one partition (the sizes add up to the number of identifiers), and a
\* position is in errors exactly when one of its two fetches raised.
C1_PartialFailureIsolated ==
    Compared =>
        /\ IsOk(response)
        /\ Len(fetchLog) = IdentifierCount
        /\ Len(Success) + Len(Errors) = IdentifierCount
        /\ CodesOf(Errors) = PickFrom(company_codes, RaisedAt, 1)
        /\ CodesOf(Success) = PickFrom(company_codes, (1..Len(company_codes)) \ RaisedAt, 1)

\* three identifiers, the second failed by a body that is not JSON raising
\* ValueError: two successes and one failure
C1_Witness ==
    /\ Compared
    /\ IdentifierCount = 3
    /\ RaisedAt = {2}
    /\ IsOk(response)
    /\ Len(Success) = 2 /\ Len(Errors) = 1
    /\ Errors[1][2]["error"] = Str(<<"ValueError", "ValueError">>)

\* s is a subsequence of t: its elements occur in t in the same order
RECURSIVE IsSubsequence(_, _)
IsSubsequence(s, t) ==
    IF s = <<>> THEN TRUE
    ELSE IF t = <<>> THEN FALSE
    ELSE IF Head(s) = Head(t) THEN IsSubsequence(Tail(s), Tail(t))
    ELSE IsSubsequence(s, Tail(t))
Occurrences(c, s) == Cardinality({i \in 1..Len(s) : s[i] = c})

\* C2: the identifiers of success and of errors are each a subsequence of
\* the input list in input order, and nothing is deduplicated: an
\* identifier given k times appears k times in all across the partitions.
C2_OrderKeptNoDedup ==
    Compared /\ IsOk(response) =>
        /\ IsSubsequence(CodesOf(Success), company_codes)
        /\ IsSubsequence(CodesOf(Errors), company_codes)
        /\ \A c \in {company_codes[i] : i \in 1..Len(company_codes)} :
              Occurrences(c, CodesOf(Success)) + Occurrences(c, CodesOf(Errors))
                  = Occurrences(c, company_codes)

\* "A, B ,A, B ": B failed once and succeeded once, A succeeded twice
C2_Witness ==
    /\ Compared /\ IsOk(response)
    /\ company_codes = << <<"A">>, <<"B">>, <<"A">>, <<"B">> >>
    /\ CodesOf(Success) = << <<"A">>, <<"A">>, <<"B">> >>
    /\ CodesOf(Errors) = << <<"B">> >>

\* C3: fewer than 2 or more than 10 identifiers fail with HTTP 400 and no
\* upstream request is issued for any identifier; 2 to 10 identifiers never
\* fail with HTTP 400.
C3_CountValidated ==
    (handler = "compare_companies" /\ pc # "start") =>
        IF InRange(IdentifierCount)
        THEN ~(response.exc = "HTTPException" /\ response.status = 400)
        ELSE /\ pc = "done"
             /\ response.exc = "HTTPException" /\ response.status = 400
             /\ reqLog = <<>>

\* eleven identifiers were refused before any request
C3_Witness ==
    /\ handler = "compare_companies" /\ pc = "done"
    /\ IdentifierCount = 11
    /\ Len(company_codes) = 11
    /\ response.status = 400
    /\ reqLog = <<>>

\* the requests of the positions from i on whose fetches are over: the
\* detail request, then the time-series request if the detail fetch
\* returned; and, while the time-series fetch of position idx is still to
\* come, the detail request of that position
RECURSIVE RequestsFrom(_)
RequestsFrom(i) ==
    IF i > Len(fetchLog)
    THEN IF pc = "financials" THEN <<DetailRequest(company_codes[idx])>> ELSE <<>>
    ELSE <<DetailRequest(company_codes[i])>>
            \o (IF fetchLog[i].info = "returned"
                THEN <<FinancialsRequest(company_codes[i])>> ELSE <<>>)
            \o RequestsFrom(i + 1)

\* C15: at every moment of a comparison the requests issued so far are, in
\* input order and per identifier, the detail request followed by the
\* time-series request only if the detail fetch succeeded; every position
\* before the one being fetched is already in a partition; a finished
\* comparison of n identifiers has issued between n and 2n requests, and
\* 2n when no fetch failed.
C15_RequestOrder ==
    (handler = "compare_companies" /\ pc # "start" /\ InRange(IdentifierCount)) =>
        /\ reqLog = RequestsFrom(1)
        /\ Len(results) + Len(errors) = Len(fetchLog)
        /\ pc \in {"info", "financials"} => idx = Len(fetchLog) + 1
        /\ pc = "done" =>
              /\ Len(reqLog) >= IdentifierCount
              /\ Len(reqLog) <= 2 * IdentifierCount
              /\ (RaisedAt = {} => Len(reqLog) = 2 * IdentifierCount)

\* "A, B ,A": the detail fetch of B failed, so five requests went out
C15_Witness ==
    /\ Compared
    /\ company_codes = << <<"A">>, <<"B">>, <<"A">> >>
    /\ fetchLog[2].info = "raised"
    /\ reqLog = <<DetailRequest(<<"A">>), FinancialsRequest(<<"A">>),
                  DetailRequest(<<"B">>),
                  DetailRequest(<<"A">>), FinancialsRequest(<<"A">>)>>

\* two identifiers, both detail fetches failed: two requests went out
C15_WitnessAllFailed ==
    /\ Compared
    /\ IdentifierCount = 2
    /\ Len(errors) = 2
    /\ reqLog = <<DetailRequest(company_codes[1]), DetailRequest(company_codes[2])>>

-----------------------------------------------------------------------------
(***************************************************************************)
(* EDINETClient._request on its own: one call for any of the requests the  *)
(* client methods issue, against every kind of reply.                      *)
(***************************************************************************)
ReplyConnectionError == Reply("connection", 0, NotJson)
\* the statuses the provider answers with, besides 200
OtherSuccessStatuses == {201, 204}
ErrorStatuses == {400, 401, 403, 404, 429, 500, 502, 503}
\* the bodies of a 2xx answer: JSON objects, or text that is not JSON
GatewayBodies ==
    {Obj(EmptyDict), DetailDoc(<<"A">>), SeriesDoc(<<"A">>),
     Obj([ranking |-> List(<<>>)]), NotJson}
GatewayReplies ==
    {Reply("ok", st, b) : st \in {200} \cup OtherSuccessStatuses, b \in GatewayBodies}
        \cup {ReplyStatus(st) : st \in ErrorStatuses}
        \cup {ReplyTimeout, ReplyConnectionError}
\* the endpoint and parameters of a call
GatewayRequests ==
    {DetailRequest(c) : c \in Codes} \cup {FinancialsRequest(c) : c \in Codes}

InitRequest ==
    /\ handler = "_request"
    /\ pc = "start"
    /\ args \in GatewayRequests
    /\ reqLog = <<>>
    /\ lastReply = NoReply
    /\ company_codes = <<>>
    /\ idx = 0
    /\ info = None
    /\ results = <<>>
    /\ errors = <<>>
    /\ fetchLog = <<>>
    /\ response = NoResponse

\* Lines 44-67: one requests.get, then the status tests and the decoding.
Request ==
    /\ handler = "_request"
    /\ pc = "start"
    /\ \E r \in GatewayReplies :
         \E o \in RequestOutcomes(r) :
            /\ lastReply' = r
            /\ reqLog' = Append(reqLog, args)
            /\ response' = o
    /\ pc' = "done"
    /\ UNCHANGED <<handler, args, company_codes, idx, info, results, errors, fetchLog>>

NextRequest == Request

SpecRequest == InitRequest /\ [][NextRequest]_vars

(***************************************************************************)
(* Properties of the gateway.                                              *)
(***************************************************************************)
\* the outcome the claim gives for a reply: the decoded document on
\* success, else an HTTP error of the status in the claim's table
ClaimedStatus(r) ==
    IF r.net # "ok" THEN 500
    ELSE IF r.status = 404 THEN 404
    ELSE IF r.status \in {401, 403} THEN 503
    ELSE IF r.status >= 400 THEN 500
    ELSE 200

\* C12 as stated: a call of _request issues exactly one outbound request;
\* it returns the decoded document on success, raises HTTP 404 on an
\* upstream 404, HTTP 503 on 401 or 403, HTTP 500 with the underlying
\* message on a timeout, a network error and any other 4xx/5xx; it ends in
\* no other way.
C12_GatewayOutcomes ==
    (handler = "_request" /\ pc = "done") =>
        /\ Len(reqLog) = 1
        /\ reqLog[1] = args
        /\ response.exc \in {"none", "HTTPException"}
        /\ IF ClaimedStatus(lastReply) = 200
           THEN response.exc = "none" => response.val = lastReply.body
           ELSE /\ response.exc = "HTTPException"
                /\ response.status = ClaimedStatus(lastReply)
                /\ response.status = 500 => response.detail # ""
        /\ response.exc = "HTTPException" => response.status \in {404, 503, 500}

-----------------------------------------------------------------------------
(***************************************************************************)
(* GET /companies/{company_code}/analysis: get_company_analysis.           *)
(***************************************************************************)
\* the keys of the latest period each section of the summary reads
SectionKeys ==
    [latest_period |-> {"fiscal_period", "fiscal_year_end_date"},
     performance |-> {"net_sales", "operating_income", "ordinary_income", "net_income"},
     balance |-> {"total_assets", "net_assets", "equity"},
     indicators |-> {"roe", "roa", "equity_ratio", "operating_margin"}]

\* one section: latest.get(k) for each of its keys
Section(latest, name) == Obj([k \in SectionKeys[name] |-> Get(latest, k)])

\* The summary built from the detail document and the latest period
\* (lines 329-361).
BuildAnalysis(company_code, infoDoc, latest) ==
    Obj([company |->
            Obj([code |-> Str(company_code),
                 name |-> Get(infoDoc, "name"),
                 industry |-> Get(infoDoc, "industry"),
                 securities_code |-> Get(infoDoc, "securities_code")]),
         latest_period |-> Section(latest, "latest_period"),
         performance |-> Section(latest, "performance"),
         balance |-> Section(latest, "balance"),
         indicators |-> Section(latest, "indicators"),
         ratings |->
            Obj([profitability |-> Str(<<rate_profitability(Get(latest, "roe"))>>),
                 efficiency |-> Str(<<rate_efficiency(Get(latest, "roa"))>>),
                 stability |-> Str(<<rate_stability(Get(latest, "equity_ratio"))>>)])])

\* faulty variant: the last element is taken
LatestLast(series) ==
    CASE series[1] = "list" -> Returned(series[2][Len(series[2])])
      [] series[1] = "str" -> Returned(Str(<<series[2][Len(series[2])]>>))
      [] series[1] = "obj" -> OtherException("KeyError")
      [] OTHER -> OtherException("TypeError")
\* financials["financials"][0] on a value Python treats as true: the first
\* element of a list, the first character of a string; a dict has no key 0
\* and a number cannot be indexed.
Latest(series) ==
    CASE series[1] = "list" -> Returned(series[2][1])
      [] series[1] = "str" -> Returned(Str(<<series[2][1]>>))
      [] series[1] = "obj" -> OtherException("KeyError")
      [] OTHER -> OtherException("TypeError")

\* Lines 323-363, given the detail document and the outcome of
\* client.get_financials: the emptiness test, the latest period, the summary.
Analyze(company_code, infoDoc, financials) ==
    IF ~IsOk(financials) THEN financials
    ELSE IF ~Truthy(Get(financials.val[2], "financials"))
         THEN HTTPException(404, "No financial data available")
    ELSE LET latest == Latest(financials.val[2]["financials"])
         IN  IF ~IsOk(latest) THEN latest
             ELSE IF latest.val[1] # "obj" THEN OtherException("AttributeError")
             ELSE Returned(BuildAnalysis(company_code, infoDoc, latest.val[2]))

\* Lines 365-368: an HTTPException is raised again as it is, any other
\* exception becomes HTTP 500 with its text.
Reraise(o) ==
    IF IsOk(o) \/ o.exc = "HTTPException" THEN o ELSE HTTPException(500, o.detail)

(***************************************************************************)
(* The documents the provider may send for an analysis.                    *)
(***************************************************************************)
\* a period with the given ratios; a ratio is absent, null or a number
PeriodOf(n, roe, equity_ratio) ==
    LET given == [fiscal_period |-> Num(n), net_sales |-> Num(100 * n),
                  total_assets |-> Num(1000 * n), roe |-> roe,
                  roa |-> Num(5 * RatioScale), equity_ratio |-> equity_ratio]
    IN  Obj([k \in {x \in DOMAIN given : given[x] # Absent} |-> given[k]])
AnalysisPeriods ==
    {PeriodOf(n, roe, eq) :
        n \in 1..2, roe \in {Absent, None, Num(15 * RatioScale)},
        eq \in {Num(19 * RatioScale), Num(50 * RatioScale)}}
AnalysisSeries == {List(s) : s \in SeqsUpTo(AnalysisPeriods, MaxSeries)}
AnalysisDocs ==
    {Obj(Envelope("data", a, "financials", Absent, EmptyDict)) :
        a \in AnalysisSeries \cup NonLists}
      \cup {Obj(Envelope("data", Absent, "financials", b, [edinet_code |-> Str(<<"A">>)])) :
              b \in AnalysisSeries \cup {Absent}}
InfoDocs(code) == {DetailDoc(code), Obj([edinet_code |-> Str(code)])}

InitAnalysis ==
    /\ handler = "get_company_analysis"
    /\ pc = "start"
    /\ args \in [company_code : Codes, years : YearsValues]
    /\ reqLog = <<>>
    /\ lastReply = NoReply
    /\ company_codes = <<>>
    /\ idx = 0
    /\ info = None
    /\ results = <<>>
    /\ errors = <<>>
    /\ fetchLog = <<>>
    /\ response = NoResponse

\* Line 320: the detail fetch; an exception ends the handler.
AnalysisFetchInfo ==
    /\ handler = "get_company_analysis"
    /\ pc = "start"
    /\ \E r \in {ReplyOk(d) : d \in InfoDocs(args.company_code)} \cup FailingReplies :
         \E o \in RequestOutcomes(r) :
            /\ lastReply' = r
            /\ reqLog' = Append(reqLog, DetailRequest(args.company_code))
            /\ IF IsOk(o)
               THEN /\ info' = o.val
                    /\ pc' = "financials"
                    /\ UNCHANGED response
               ELSE /\ response' = Reraise(o)
                    /\ pc' = "done"
                    /\ UNCHANGED info
    /\ UNCHANGED <<handler, args, company_codes, idx, results, errors, fetchLog>>

\* Lines 321-368: the time-series fetch and the summary.
AnalysisFetchFinancials ==
    /\ handler = "get_company_analysis"
    /\ pc = "financials"
    /\ \E r \in {ReplyOk(d) : d \in AnalysisDocs} \cup FailingReplies :
         \E o \in RequestOutcomes(r) :
            /\ lastReply' = r
            /\ reqLog' = Append(reqLog, FinancialsRequest(args.company_code))
            /\ response' = Reraise(Analyze(args.company_code, info[2],
                                           GetFinancials(o, args.years)))
    /\ pc' = "done"
    /\ UNCHANGED <<handler, args, company_codes, idx, info, results, errors, fetchLog>>

NextAnalysis == AnalysisFetchInfo \/ AnalysisFetchFinancials

SpecAnalysis == InitAnalysis /\ [][NextAnalysis]_vars

(***************************************************************************)
(* Properties of the analysis handler.                                     *)
(***************************************************************************)
AnalysisDone == handler = "get_company_analysis" /\ pc = "done"
\* the latest fetch met an upstream 404, 401, 403, other 4xx/5xx, a timeout
UpstreamFailed == lastReply.net # "ok" \/ lastReply.status >= 400
\* the time series the provider sent: a list under one envelope key
SeriesSent(key) ==
    /\ Len(reqLog) = 2
    /\ lastReply.net = "ok" /\ lastReply.status = 200 /\ lastReply.body # NotJson
    /\ SeriesUnder(UpstreamDoc, key)
\* what latest.get(k) is for the first element of a windowed series
FromFirst(windowed, k) == IF k \in DOMAIN windowed[1][2] THEN windowed[1][2][k] ELSE None

\* C13: an empty series after windowing fails with HTTP 404; a non-empty
\* one succeeds and every field of latest_period, performance, balance and
\* indicators is that field of the first element of the windowed series,
\* and the ratings are the classifiers applied to its roe, roa and
\* equity_ratio; a 404, auth or transport failure of either fetch comes out
\* with the status the gateway gave it (404, 503, 500).
C13_Analysis ==
    AnalysisDone =>
        /\ UpstreamFailed =>
              /\ response.exc = "HTTPException"
              /\ response.status = ClaimedStatus(lastReply)
        /\ \A key \in {"data", "financials"} :
              SeriesSent(key) =>
                 LET windowed == ExpectedWindow(UpstreamDoc[key][2], args.years) IN
                 IF windowed = <<>>
                 THEN response.exc = "HTTPException" /\ response.status = 404
                 ELSE /\ IsOk(response)
                      /\ \A sec \in DOMAIN SectionKeys :
                            /\ DOMAIN ResponseDoc[sec][2] = SectionKeys[sec]
                            /\ \A k \in SectionKeys[sec] :
                                  ResponseDoc[sec][2][k] = FromFirst(windowed, k)
                      /\ ResponseDoc["ratings"][2] =
                            [profitability |->
                                Str(<<Classify("roe", FromFirst(windowed, "roe"))>>),
                             efficiency |->
                                Str(<<Classify("roa", FromFirst(windowed, "roa"))>>),
                             stability |->
                                Str(<<Classify("equity_ratio",
                                               FromFirst(windowed, "equity_ratio"))>>)]

\* two periods that differ in every ratio: the summary shows the first
C13_Witness ==
    /\ AnalysisDone
    /\ SeriesSent("data")
    /\ UpstreamDoc["data"] =
          List(<<PeriodOf(2, Num(15 * RatioScale), Num(19 * RatioScale)),
                 PeriodOf(1, None, Num(50 * RatioScale))>>)
    /\ args.years = None
    /\ IsOk(response)
    /\ ResponseDoc["latest_period"][2]["fiscal_period"] = Num(2)
    /\ ResponseDoc["ratings"][2]["profitability"] = Str(<<Excellent>>)
    /\ ResponseDoc["ratings"][2]["stability"] = Str(<<NeedsImprovement>>)

\* the detail fetch met a rejected credential: HTTP 503 and no second fetch
C13_WitnessPropagated ==
    /\ AnalysisDone
    /\ Len(reqLog) = 1
    /\ lastReply.status = 401
    /\ response.status = 503

-----------------------------------------------------------------------------
(***************************************************************************)
(* The command-line tool (src/edinet_analyzer.py):                         *)
(* EDINETAnalyzer._request and EDINETAnalyzer.compare_companies.           *)
(***************************************************************************)
\* most identifiers given on the command line
MaxBatch == 3

\* sys.exit(1): SystemExit, which is a BaseException and not an Exception
SystemExit == OtherException("SystemExit")

\* The outcomes of one EDINETAnalyzer._request call that meets reply r:
\* every RequestException (transport failure, raise_for_status on any
\* 4xx/5xx) prints a message and calls sys.exit(1).  The decode error of a
\* body that is not JSON is a RequestException or a plain ValueError, as
\* the installed requests has it.
AnalyzerRequestOutcomes(r) ==
    IF r.net # "ok" THEN {SystemExit}
    ELSE IF r.status >= 400 THEN {SystemExit}
    ELSE IF r.body = NotJson THEN {SystemExit, OtherException("ValueError")}
    ELSE {Returned(r.body)}

\* except Exception as e: SystemExit passes through it
CaughtByExceptException(o) == ~IsOk(o) /\ o # SystemExit

\* The entry appended to results (lines 113-118 of the tool).
AnalyzerEntry(code, infoDoc, financials) ==
    Obj([code |-> Str(code), name |-> Get(infoDoc[2], "name"), info |-> infoDoc,
         financials |-> financials])

\* the ways the provider fails a fetch of the tool
AnalyzerFailingReplies ==
    {ReplyStatus(404), ReplyStatus(500), ReplyTimeout, ReplyConnectionError,
     ReplyOk(NotJson)}

InitAnalyzer ==
    /\ handler = "EDINETAnalyzer.compare_companies"
    /\ pc = "info"
    /\ args = [years |-> None]
    /\ reqLog = <<>>
    /\ lastReply = NoReply
    /\ company_codes \in SeqsUpTo(Codes, MaxBatch)
    /\ idx = 1
    /\ info = None
    /\ results = <<>>
    /\ errors = <<>>
    /\ fetchLog = <<>>
    /\ response = NoResponse

\* Line 111 of the tool: the detail fetch of the current code.  A caught
\* exception prints the warning (kept in errors) and the loop goes on;
\* SystemExit ends the process.
AnalyzerFetchInfo ==
    /\ handler = "EDINETAnalyzer.compare_companies"
    /\ pc = "info"
    /\ idx <= Len(company_codes)
    /\ LET code == company_codes[idx] IN
       \E r \in {ReplyOk(DetailDoc(code))} \cup AnalyzerFailingReplies :
         \E o \in AnalyzerRequestOutcomes(r) :
            /\ lastReply' = r
            /\ reqLog' = Append(reqLog, DetailRequest(code))
            /\ IF IsOk(o)
               THEN /\ info' = o.val
                    /\ pc' = "financials"
                    /\ UNCHANGED <<errors, idx, fetchLog, response>>
               ELSE /\ fetchLog' = Append(fetchLog, [info |-> "raised", financials |-> "skipped"])
                    /\ UNCHANGED info
                    /\ IF CaughtByExceptException(o)
                       THEN /\ errors' = Append(errors, ErrorEntry(code, o))
                            /\ idx' = idx + 1
                            /\ UNCHANGED <<pc, response>>
                       ELSE /\ response' = o
                            /\ pc' = "done"
                            /\ UNCHANGED <<errors, idx>>
    /\ UNCHANGED <<handler, args, company_codes, results>>

\* Lines 112-120 of the tool: the time-series fetch and the append.
AnalyzerFetchFinancials ==
    /\ handler = "EDINETAnalyzer.compare_companies"
    /\ pc = "financials"
    /\ LET code == company_codes[idx] IN
       \E r \in {ReplyOk(SeriesDoc(code))} \cup AnalyzerFailingReplies :
         \E financials \in AnalyzerRequestOutcomes(r) :
            /\ lastReply' = r
            /\ reqLog' = Append(reqLog, FinancialsRequest(code))
            /\ IF IsOk(financials)
               THEN /\ results' = Append(results, AnalyzerEntry(code, info, financials.val))
                    /\ fetchLog' = Append(fetchLog, [info |-> "returned", financials |-> "returned"])
                    /\ idx' = idx + 1
                    /\ pc' = "info"
                    /\ UNCHANGED <<errors, response>>
               ELSE /\ fetchLog' = Append(fetchLog, [info |-> "returned", financials |-> "raised"])
                    /\ UNCHANGED results
                    /\ IF CaughtByExceptException(financials)
                       THEN /\ errors' = Append(errors, ErrorEntry(code, financials))
                            /\ idx' = idx + 1
                            /\ pc' = "info"
                            /\ UNCHANGED response
                       ELSE /\ response' = financials
                            /\ pc' = "done"
                            /\ UNCHANGED <<errors, idx>>
    /\ info' = None   \* assigned anew by the next detail fetch
    /\ UNCHANGED <<handler, args, company_codes>>

\* Line 122 of the tool: return results.
AnalyzerReturn ==
    /\ handler = "EDINETAnalyzer.compare_companies"
    /\ pc = "info"
    /\ idx > Len(company_codes)
    /\ response' = Returned(List(results))
    /\ pc' = "done"
    /\ UNCHANGED <<handler, args, reqLog, lastReply, company_codes, idx, info,
                   results, errors, fetchLog>>

NextAnalyzer ==
    \/ AnalyzerFetchInfo
    \/ AnalyzerFetchFinancials
    \/ AnalyzerReturn

SpecAnalyzer == InitAnalyzer /\ [][NextAnalyzer]_vars

(***************************************************************************)
(* Properties of the command-line compare.                                 *)
(***************************************************************************)
\* C14 as stated: whatever fetch fails (HTTP error status, timeout, network
\* error), the call goes through every identifier and returns the entries
\* of all companies whose two fetches succeeded, in input order; a failure
\* never ends the batch or the process.
C14_BatchSurvivesFailure ==
    (handler = "EDINETAnalyzer.compare_companies" /\ pc = "done") =>
        /\ IsOk(response)
        /\ Len(fetchLog) = Len(company_codes)
        /\ CodesOf(response.val[2]) =
              PickFrom(company_codes, (1..Len(company_codes)) \ RaisedAt, 1)
=============================================================================
